---- MODULE Spec2Model ----
(***************************************************************************)
(* Model of FrankWolfeSSVM (src/frankwolfe_ssvm.py): the fit orchestrator, *)
(* the block-coordinate and batch Frank-Wolfe loops, the duality-gap       *)
(* monitor, setTest, and delivery of KeyboardInterrupt inside fit's try.   *)
(*                                                                         *)
(* Reals are exact rationals <<numerator, denominator>> in lowest terms    *)
(* with a positive denominator.  The structured model (find_constraint,    *)
(* batch inference, loss, psi, _objective, predict) is an external         *)
(* collaborator: each call returns a value drawn from a small set or       *)
(* raises.                                                                 *)
(***************************************************************************)
EXTENDS Integers, Sequences, FiniteSets, TLC

(* ------------------------------ bounds -------------------------------- *)
\* largest max_iter a solver is constructed with
MaxIter == 1
\* largest check_dual_every a solver is constructed with
MaxCheckEvery == 1
\* number of fit calls made on one solver object
MaxFits == 2
\* largest numerator or denominator magnitude a stored real may have
MaxMag == 400
\* Frank-Wolfe steps (block-coordinate or batch) taken over a solver's life
MaxSteps == 4

(* ------------------------- data and parameters ------------------------ *)
\* len(X): number of training samples
n_samples == 2
\* model.size_psi: dimension of the joint feature map
size_psi == 2
\* regularisation parameter C (constructor default 1.0)
C == 1

(* ------------------------- exact rationals ---------------------------- *)
Abs(a) == IF a < 0 THEN -a ELSE a

RECURSIVE GCD(_, _)
GCD(a, b) == IF b = 0 THEN a ELSE GCD(b, a % b)

Rat(a, b) ==
    LET g == GCD(Abs(a), Abs(b))
        s == IF b < 0 THEN -1 ELSE 1
    IN  <<(s * a) \div g, (s * b) \div g>>

R(i)       == <<i, 1>>
Zero       == R(0)
One        == R(1)
RAdd(x, y) ==
    LET g == GCD(x[2], y[2])
    IN  Rat(x[1] * (y[2] \div g) + y[1] * (x[2] \div g), (x[2] \div g) * y[2])
RNeg(x)    == <<-x[1], x[2]>>
RSub(x, y) == RAdd(x, RNeg(y))
RMul(x, y) ==
    LET g1 == GCD(Abs(x[1]), y[2])
        g2 == GCD(Abs(y[1]), x[2])
    IN  Rat((x[1] \div g1) * (y[1] \div g2), (x[2] \div g2) * (y[2] \div g1))
\* x / y for y # 0
RDiv(x, y) == RMul(x, Rat(y[2], y[1]))
RLt(x, y)  == RSub(x, y)[1] < 0
RLeq(x, y) == RSub(x, y)[1] <= 0
\* Python's max(a, b) and min(a, b)
RMax(x, y) == IF RLt(x, y) THEN y ELSE x
RMin(x, y) == IF RLt(y, x) THEN y ELSE x

Dims    == 1..size_psi
Samples == 0..(n_samples - 1)

\* vectors of length size_psi
ZeroVec      == [d \in Dims |-> Zero]
VAdd(u, v)   == [d \in Dims |-> RAdd(u[d], v[d])]
VSub(u, v)   == [d \in Dims |-> RSub(u[d], v[d])]
VScale(a, v) == [d \in Dims |-> RMul(a, v[d])]

RECURSIVE SumTo(_, _)
\* f[1] + ... + f[m]
SumTo(f, m) == IF m = 0 THEN Zero ELSE RAdd(SumTo(f, m - 1), f[m])

\* u.T.dot(v)
Dot(u, v) == SumTo([d \in Dims |-> RMul(u[d], v[d])], size_psi)
\* np.sum(v ** 2)
SumSq(v)  == Dot(v, v)

SmallR(x) == Abs(x[1]) <= MaxMag /\ x[2] <= MaxMag
SmallV(v) == \A d \in Dims : SmallR(v[d])


(* --------------------------- collaborators ---------------------------- *)
\* tol (constructor default .001)
tol == Rat(1, 1000)
\* eps, the additive floor of the line-search denominator.  The source's
\* 1e-15 is not representable in TLC's integers; the model keeps a positive
\* floor of 1/1000.
eps == Rat(1, 1000)

\* feature-map differences psi(x, y) - psi(x, y_hat) the model can report
E1     == [d \in Dims |-> IF d = 1 THEN One ELSE Zero]
ELast  == [d \in Dims |-> IF d = size_psi THEN One ELSE Zero]
\* find_constraint(model, x, y, w): (y_hat, delta_psi, slack, loss) with
\* y_hat and slack unused by the solver
Constraints ==
    { [delta_psi |-> ZeroVec,         loss |-> One],
      [delta_psi |-> VSub(E1, ELast), loss |-> One] }
\* batch_loss_augmented_inference + batch_psi + batch_loss over the whole
\* data set: dpsi = psi_gt - batch_psi(X, Y_hat), losses = np.sum(batch_loss)
BatchConstraints ==
    { [dpsi |-> ZeroVec,         losses |-> Zero],
      [dpsi |-> VSub(E1, ELast), losses |-> R(n_samples)] }
\* values BaseSSVM._objective(X, Y) can return
ObjectiveValues == { Zero, One }

SampleMethods == {"perm", "rnd", "seq"}

(* ------------------------------- state -------------------------------- *)
VARIABLES
    cfg,            \* constructor arguments (lines 104-125)
    has_test,       \* setTest has stored testX_, testY_, trainY_
    has_w,          \* the solver object has an attribute w
    self_w,         \* self.w
    aliased,        \* self.w and the local w are the same array object
    objective_curve_, primal_objective_curve_,
    timestamps_,    \* len(self.timestamps_)
    train_score_,   \* len(self.train_score_)
    test_score_,    \* len(self.test_score_)
    logger_calls,   \* labels the logger has been called with in this fit
    w, w_mat, l_mat, l, l_avg, k, p, perm, j,   \* locals of the loops
    ws, ls, gamma, dual_gap, dual_val, primal_val,
    pc,             \* position inside fit, "idle" outside
    outcome,        \* how the last fit call ended
    interrupted,    \* KeyboardInterrupt was delivered in this fit call
    fits,           \* number of fit calls started
    steps,          \* number of Frank-Wolfe steps started on this solver
    passes,         \* passes over the data completed in this fit call
    w_entry,        \* self.w right after line 323 of this fit call
    w_completed     \* self.w as exported by the last completed inner step

solver  == <<cfg, has_test, has_w, self_w, aliased>>
logs    == <<objective_curve_, primal_objective_curve_, timestamps_,
             train_score_, test_score_, logger_calls>>
locals  == <<w, w_mat, l_mat, l, l_avg, k, p, perm, j>>
temps   == <<ws, ls, gamma, dual_gap, dual_val, primal_val>>
control == <<pc, outcome, interrupted, fits, steps, passes, w_entry, w_completed>>
vars    == <<solver, logs, locals, temps, control>>

ZeroMat  == [i \in Samples |-> ZeroVec]
ZeroLMat == [i \in Samples |-> Zero]
Identity == [i \in Samples |-> i]

\* np.sum(w_mat, axis=0) and np.sum(l_mat)
SumRows(m) == [d \in Dims |-> SumTo([i \in 1..n_samples |-> m[i - 1][d]], n_samples)]
SumL(m)    == SumTo([i \in 1..n_samples |-> m[i - 1]], n_samples)

\* logger labels: a pass index, or the terminal marker 'final'
PassLabel(idx) == <<"pass", idx>>
FinalLabel     == <<"final">>

(* -------------------------- construction ------------------------------ *)
\* __init__: sample_method is validated, everything else is stored as given
Init ==
    /\ cfg \in [ batch_mode       : BOOLEAN,
                 line_search      : BOOLEAN,
                 do_averaging     : BOOLEAN,
                 check_dual_every : 0..MaxCheckEvery,
                 max_iter         : 0..MaxIter,
                 sample_method    : SampleMethods,
                 logger           : BOOLEAN ]
    /\ has_test = FALSE
    /\ has_w = FALSE
    /\ self_w = ZeroVec
    /\ aliased = FALSE
    /\ objective_curve_ = <<>>
    /\ primal_objective_curve_ = <<>>
    /\ timestamps_ = 0
    /\ train_score_ = 0
    /\ test_score_ = 0
    /\ logger_calls = <<>>
    /\ w = ZeroVec /\ w_mat = ZeroMat /\ l_mat = ZeroLMat
    /\ l = Zero /\ l_avg = Zero /\ k = 0 /\ p = 0 /\ perm = Identity /\ j = 0
    /\ ws = ZeroVec /\ ls = Zero /\ gamma = Zero
    /\ dual_gap = Zero /\ dual_val = Zero /\ primal_val = Zero
    /\ pc = "idle" /\ outcome = "none" /\ interrupted = FALSE /\ fits = 0
    /\ steps = 0 /\ passes = 0
    /\ w_entry = ZeroVec /\ w_completed = ZeroVec

\* the frame of the loop function is left (return or exception): its locals
\* are discarded and self.w no longer shares its array with one of them
ResetLocals ==
    /\ aliased' = FALSE
    /\ w' = ZeroVec /\ w_mat' = ZeroMat /\ l_mat' = ZeroLMat
    /\ l' = Zero /\ l_avg' = Zero /\ k' = 0 /\ p' = 0 /\ perm' = Identity /\ j' = 0
    /\ ws' = ZeroVec /\ ls' = Zero /\ gamma' = Zero
    /\ dual_gap' = Zero /\ dual_val' = Zero /\ primal_val' = Zero

\* setTest(testX, testY, trainY), called between fit calls
SetTest ==
    /\ pc = "idle"
    /\ ~has_test
    /\ has_test' = TRUE
    /\ UNCHANGED <<cfg, has_w, self_w, aliased, logs, locals, temps, control>>

\* a fit that always starts from zeros
InitialW_Cold == ZeroVec

\* getattr(self, "w", np.zeros(self.model.size_psi))
InitialW == IF has_w THEN self_w ELSE ZeroVec

\* fit, lines 315-323
FitBegin ==
    /\ pc = "idle"
    /\ fits < MaxFits
    /\ objective_curve_' = <<>>
    /\ primal_objective_curve_' = <<>>
    /\ test_score_' = 0
    /\ train_score_' = 0
    /\ timestamps_' = 1
    /\ logger_calls' = <<>>
    /\ self_w' = InitialW
    /\ has_w' = TRUE
    /\ w_entry' = InitialW
    /\ w_completed' = InitialW
    /\ fits' = fits + 1
    /\ passes' = 0
    /\ interrupted' = FALSE
    /\ outcome' = "running"
    /\ pc' = IF cfg.batch_mode THEN "batch_init" ELSE "bc_init"
    /\ UNCHANGED <<cfg, has_test, aliased, locals, temps, steps>>

(* ---------------------- block-coordinate loop ------------------------ *)
\* _frank_wolfe_bc, lines 199-207
BcInit ==
    /\ pc = "bc_init"
    /\ w' = self_w
    /\ aliased' = FALSE
    /\ w_mat' = ZeroMat
    /\ l_mat' = ZeroLMat
    /\ l_avg' = Zero
    /\ l' = Zero
    /\ k' = 0
    /\ p' = 0
    /\ pc' = "bc_pass"
    /\ UNCHANGED <<cfg, has_test, has_w, self_w, logs, perm, j, temps,
                   outcome, interrupted, fits, steps, passes, w_entry, w_completed>>

\* visiting orders of one pass, lines 212-216
Orders(method) ==
    IF method = "perm"
    THEN { f \in [Samples -> Samples] : \A a, b \in Samples : f[a] = f[b] => a = b }
    ELSE IF method = "rnd"
    THEN [Samples -> Samples]
    ELSE { Identity }

\* for p in range(self.max_iter), lines 208-216
BcPass ==
    /\ pc = "bc_pass"
    /\ IF p < cfg.max_iter
       THEN /\ perm' \in Orders(cfg.sample_method)
            /\ j' = 0
            /\ pc' = "bc_find"
            /\ UNCHANGED <<aliased, w, w_mat, l_mat, l, l_avg, k, p, temps>>
       ELSE /\ pc' = "final_ts"
            /\ ResetLocals
    /\ UNCHANGED <<cfg, has_test, has_w, self_w, logs,
                   outcome, interrupted, fits, steps, passes, w_entry, w_completed>>

\* the clamp with the upper cut min(1.0, .) left out
Clamp_NoUpper(g) == RMax(Zero, g)

\* max(0.0, min(1.0, gamma)), lines 172 and 231
Clamp(g) == RMax(Zero, RMin(One, g))

\* line search of the block-coordinate step, lines 228-231
BcLineSearch(wmi, wsv, wv, lmi, lsv) ==
    LET w_diff == VSub(wmi, wsv)
    IN  Clamp(RDiv(RSub(Dot(w_diff, wv),
                        RMul(R(C * n_samples), RSub(lmi, lsv))),
                   RAdd(SumSq(w_diff), eps)))

\* fixed schedule of the block-coordinate step, line 233
BcSchedule(kk) == Rat(2 * n_samples, kk + 2 * n_samples)

\* lines 219-233: the oracle returns a constraint for sample perm[j]
BcFindConstraint ==
    /\ pc = "bc_find"
    /\ steps < MaxSteps
    /\ steps' = steps + 1
    /\ \E c \in Constraints :
         LET i    == perm[j]
             ws_n == VScale(R(C), c.delta_psi)
             ls_n == RDiv(c.loss, R(n_samples))
             g    == IF cfg.line_search
                     THEN BcLineSearch(w_mat[i], ws_n, w, l_mat[i], ls_n)
                     ELSE BcSchedule(k)
         IN  /\ ws' = ws_n
             /\ ls' = ls_n
             /\ gamma' = g
    /\ pc' = "bc_sub_w"
    /\ UNCHANGED <<solver, logs, locals, dual_gap, dual_val, primal_val,
                   outcome, interrupted, fits, passes, w_entry, w_completed>>

\* w -= w_mat[i], line 235 (in place: self.w changes too when it is w)
BcSubW ==
    /\ pc = "bc_sub_w"
    /\ LET w_n == VSub(w, w_mat[perm[j]])
       IN  /\ SmallV(w_n)
           /\ w' = w_n
           /\ self_w' = IF aliased THEN w_n ELSE self_w
    /\ pc' = "bc_blend_w"
    /\ UNCHANGED <<cfg, has_test, has_w, aliased, logs, w_mat, l_mat, l, l_avg,
                   k, p, perm, j, temps,
                   outcome, interrupted, fits, steps, passes, w_entry, w_completed>>

\* (1.0 - gamma) * old + gamma * new
Blend(g, old, new) == RAdd(RMul(RSub(One, g), old), RMul(g, new))
BlendV(g, old, new) == [d \in Dims |-> Blend(g, old[d], new[d])]

\* w_mat[i] = (1.0 - gamma) * w_mat[i] + gamma * ws, line 236
BcBlendW ==
    /\ pc = "bc_blend_w"
    /\ LET row == BlendV(gamma, w_mat[perm[j]], ws)
       IN  /\ SmallV(row)
           /\ w_mat' = [w_mat EXCEPT ![perm[j]] = row]
    /\ pc' = "bc_add_w"
    /\ UNCHANGED <<solver, logs, w, l_mat, l, l_avg, k, p, perm, j, temps,
                   outcome, interrupted, fits, steps, passes, w_entry, w_completed>>

\* w += w_mat[i], line 237
BcAddW ==
    /\ pc = "bc_add_w"
    /\ LET w_n == VAdd(w, w_mat[perm[j]])
       IN  /\ SmallV(w_n)
           /\ w' = w_n
           /\ self_w' = IF aliased THEN w_n ELSE self_w
    /\ pc' = "bc_sub_l"
    /\ UNCHANGED <<cfg, has_test, has_w, aliased, logs, w_mat, l_mat, l, l_avg,
                   k, p, perm, j, temps,
                   outcome, interrupted, fits, steps, passes, w_entry, w_completed>>

\* l -= l_mat[i], line 239
BcSubL ==
    /\ pc = "bc_sub_l"
    /\ l' = RSub(l, l_mat[perm[j]])
    /\ pc' = "bc_blend_l"
    /\ UNCHANGED <<solver, logs, w, w_mat, l_mat, l_avg, k, p, perm, j, temps,
                   outcome, interrupted, fits, steps, passes, w_entry, w_completed>>

\* l_mat[i] = (1.0 - gamma) * l_mat[i] + gamma * ls, line 240
BcBlendL ==
    /\ pc = "bc_blend_l"
    /\ LET e == Blend(gamma, l_mat[perm[j]], ls)
       IN  /\ SmallR(e)
           /\ l_mat' = [l_mat EXCEPT ![perm[j]] = e]
    /\ pc' = "bc_add_l"
    /\ UNCHANGED <<solver, logs, w, w_mat, l, l_avg, k, p, perm, j, temps,
                   outcome, interrupted, fits, steps, passes, w_entry, w_completed>>

\* l += l_mat[i], line 241
BcAddL ==
    /\ pc = "bc_add_l"
    /\ LET l_n == RAdd(l, l_mat[perm[j]])
       IN  /\ SmallR(l_n)
           /\ l' = l_n
    /\ pc' = "bc_export"
    /\ UNCHANGED <<solver, logs, w, w_mat, l_mat, l_avg, k, p, perm, j, temps,
                   outcome, interrupted, fits, steps, passes, w_entry, w_completed>>

\* rho = 2.0 / (k + 2.0), line 244
Rho(kk) == Rat(2, kk + 2)

\* lines 243-249: export the weight vector, advance k and the inner loop
BcExport ==
    /\ pc = "bc_export"
    /\ IF cfg.do_averaging
       THEN LET avg_w == BlendV(Rho(k), self_w, w)
                avg_l == Blend(Rho(k), l_avg, l)
            IN  /\ SmallV(avg_w)
                /\ SmallR(avg_l)
                /\ self_w' = avg_w
                /\ l_avg' = avg_l
                /\ aliased' = FALSE
       ELSE /\ self_w' = w
            /\ aliased' = TRUE
            /\ UNCHANGED l_avg
    /\ w_completed' = self_w'
    /\ k' = k + 1
    /\ IF j + 1 < n_samples
       THEN /\ j' = j + 1
            /\ pc' = "bc_find"
            /\ UNCHANGED passes
       ELSE /\ j' = 0
            /\ pc' = "bc_log"
            /\ passes' = passes + 1
    /\ UNCHANGED <<cfg, has_test, has_w, logs, w, w_mat, l_mat, l, p, perm, temps,
                   outcome, interrupted, fits, steps, w_entry>>

\* if self.logger is not None: self.logger(self, p), lines 251-252
BcLog ==
    /\ pc = "bc_log"
    /\ logger_calls' = IF cfg.logger THEN Append(logger_calls, PassLabel(p))
                                     ELSE logger_calls
    /\ pc' = "bc_check"
    /\ UNCHANGED <<solver, objective_curve_, primal_objective_curve_, timestamps_,
                   train_score_, test_score_, locals, temps,
                   outcome, interrupted, fits, steps, passes, w_entry, w_completed>>

\* (self.check_dual_every != 0) and (p % self.check_dual_every == 0), line 253
CheckDue(pp) == cfg.check_dual_every # 0 /\ pp % cfg.check_dual_every = 0

\* line 253: enter the duality-gap check or go on to the next pass
BcCheck ==
    /\ pc = "bc_check"
    /\ IF CheckDue(p)
       THEN /\ pc' = "gap_eval"
            /\ UNCHANGED p
       ELSE /\ pc' = "bc_pass"
            /\ p' = p + 1
    /\ UNCHANGED <<solver, logs, w, w_mat, l_mat, l, l_avg, k, perm, j, temps,
                   outcome, interrupted, fits, steps, passes, w_entry, w_completed>>

(* ------------------------ duality-gap monitor ------------------------- *)
\* _calc_dual_gap, line 137, with l already scaled by n_samples * C (line 135)
DualVal(wv, l_scaled) == RAdd(RMul(Rat(-1, 2), SumSq(wv)), l_scaled)
\* _calc_dual_gap, lines 138-139
DualGap(wv, wsv, l_scaled, loss_sum) ==
    RAdd(RSub(Dot(VSub(wv, wsv), wv), l_scaled), RMul(loss_sum, R(C)))

\* _calc_dual_gap, lines 128-140: batch inference and the three values
GapEval ==
    /\ pc = "gap_eval"
    /\ \E b \in BatchConstraints :
         LET ws_b     == VScale(R(C), b.dpsi)
             l_scaled == RMul(l, R(n_samples * C))
             dv       == DualVal(self_w, l_scaled)
             dg       == DualGap(self_w, ws_b, l_scaled, b.losses)
         IN  /\ SmallR(dv) /\ SmallR(dg)
             /\ dual_val' = dv
             /\ dual_gap' = dg
             /\ primal_val' = RAdd(dv, dg)
    /\ pc' = "gap_app_primal"
    /\ UNCHANGED <<solver, logs, locals, ws, ls, gamma,
                   outcome, interrupted, fits, steps, passes, w_entry, w_completed>>

\* self.primal_objective_curve_.append(primal_val), line 141
GapAppendPrimal ==
    /\ pc = "gap_app_primal"
    /\ primal_objective_curve_' = Append(primal_objective_curve_, primal_val)
    /\ pc' = "gap_app_dual"
    /\ UNCHANGED <<solver, objective_curve_, timestamps_, train_score_, test_score_,
                   logger_calls, locals, temps,
                   outcome, interrupted, fits, steps, passes, w_entry, w_completed>>

\* self.objective_curve_.append(dual_val), line 142
GapAppendDual ==
    /\ pc = "gap_app_dual"
    /\ objective_curve_' = Append(objective_curve_, dual_val)
    /\ pc' = "gap_app_ts"
    /\ UNCHANGED <<solver, primal_objective_curve_, timestamps_, train_score_,
                   test_score_, logger_calls, locals, temps,
                   outcome, interrupted, fits, steps, passes, w_entry, w_completed>>

\* self.timestamps_.append(...) and return, lines 143-144
GapAppendTime ==
    /\ pc = "gap_app_ts"
    /\ timestamps_' = timestamps_ + 1
    /\ pc' = "bc_app_primal"
    /\ UNCHANGED <<solver, objective_curve_, primal_objective_curve_, train_score_,
                   test_score_, logger_calls, locals, temps,
                   outcome, interrupted, fits, steps, passes, w_entry, w_completed>>

\* self.primal_objective_curve_.append(primal_val), line 255
BcAppendPrimal ==
    /\ pc = "bc_app_primal"
    /\ primal_objective_curve_' = Append(primal_objective_curve_, primal_val)
    /\ pc' = "bc_app_dual"
    /\ UNCHANGED <<solver, objective_curve_, timestamps_, train_score_, test_score_,
                   logger_calls, locals, temps,
                   outcome, interrupted, fits, steps, passes, w_entry, w_completed>>

\* self.objective_curve_.append(dual_val), line 256
BcAppendDual ==
    /\ pc = "bc_app_dual"
    /\ objective_curve_' = Append(objective_curve_, dual_val)
    /\ pc' = "bc_app_ts"
    /\ UNCHANGED <<solver, primal_objective_curve_, timestamps_, train_score_,
                   test_score_, logger_calls, locals, temps,
                   outcome, interrupted, fits, steps, passes, w_entry, w_completed>>

\* self.timestamps_.append(...), line 257
BcAppendTime ==
    /\ pc = "bc_app_ts"
    /\ timestamps_' = timestamps_ + 1
    /\ pc' = "bc_score"
    /\ UNCHANGED <<solver, objective_curve_, primal_objective_curve_, train_score_,
                   test_score_, logger_calls, locals, temps,
                   outcome, interrupted, fits, steps, passes, w_entry, w_completed>>

\* lines 258-259: self.testX_, self.testY_ and self.trainY_ exist only after
\* setTest; reading a missing attribute raises AttributeError
BcScore ==
    /\ pc = "bc_score"
    /\ IF has_test
       THEN /\ pc' = "bc_app_train"
            /\ UNCHANGED <<outcome, aliased, locals, temps>>
       ELSE /\ pc' = "idle"
            /\ outcome' = "AttributeError"
            /\ ResetLocals
    /\ UNCHANGED <<cfg, has_test, has_w, self_w, logs, interrupted, fits, steps, passes, w_entry, w_completed>>

\* self.train_score_.append(train_score), line 260
BcAppendTrain ==
    /\ pc = "bc_app_train"
    /\ train_score_' = train_score_ + 1
    /\ pc' = "bc_app_test"
    /\ UNCHANGED <<solver, objective_curve_, primal_objective_curve_, timestamps_,
                   test_score_, logger_calls, locals, temps,
                   outcome, interrupted, fits, steps, passes, w_entry, w_completed>>

\* self.test_score_.append(test_score), line 261
BcAppendTest ==
    /\ pc = "bc_app_test"
    /\ test_score_' = test_score_ + 1
    /\ pc' = "bc_tol"
    /\ UNCHANGED <<solver, objective_curve_, primal_objective_curve_, timestamps_,
                   train_score_, logger_calls, locals, temps,
                   outcome, interrupted, fits, steps, passes, w_entry, w_completed>>

\* if dual_gap < self.tol: return, lines 265-266, else the next pass
BcTol ==
    /\ pc = "bc_tol"
    /\ IF RLt(dual_gap, tol)
       THEN /\ pc' = "final_ts"
            /\ ResetLocals
       ELSE /\ pc' = "bc_pass"
            /\ p' = p + 1
            /\ UNCHANGED <<aliased, w, w_mat, l_mat, l, l_avg, k, perm, j, temps>>
    /\ UNCHANGED <<cfg, has_test, has_w, self_w, logs,
                   outcome, interrupted, fits, steps, passes, w_entry, w_completed>>

(* ---------------------------- batch loop ------------------------------ *)
\* _frank_wolfe_batch, lines 154-156
BatchInit ==
    /\ pc = "batch_init"
    /\ l' = Zero
    /\ k' = 0
    /\ pc' = "batch_iter"
    /\ UNCHANGED <<solver, logs, w, w_mat, l_mat, l_avg, p, perm, j, temps,
                   outcome, interrupted, fits, steps, passes, w_entry, w_completed>>

\* for k in range(self.max_iter), line 158
BatchIter ==
    /\ pc = "batch_iter"
    /\ IF k < cfg.max_iter
       THEN /\ pc' = "batch_infer"
            /\ UNCHANGED <<aliased, locals, temps>>
       ELSE /\ pc' = "final_ts"
            /\ ResetLocals
    /\ UNCHANGED <<cfg, has_test, has_w, self_w, logs,
                   outcome, interrupted, fits, steps, passes, w_entry, w_completed>>

\* dual_gap of the batch step, lines 165-166
BatchGap(wv, wsv, lv, lsv) ==
    RAdd(RSub(RMul(Rat(1, C * n_samples), Dot(VSub(wv, wsv), wv)), lv), lsv)

\* line search of the batch step, lines 170-172
BatchLineSearch(gap, wv, wsv) ==
    Clamp(RDiv(gap, RAdd(RDiv(SumSq(VSub(wv, wsv)), R(C * n_samples)), eps)))

\* fixed schedule of the batch step, line 174
BatchSchedule(kk) == Rat(2, kk + 2)

\* lines 159-174: batch inference, gap and step size
BatchInfer ==
    /\ pc = "batch_infer"
    /\ steps < MaxSteps
    /\ steps' = steps + 1
    /\ \E b \in BatchConstraints :
         LET ws_n == VScale(R(C), b.dpsi)
             ls_n == RDiv(b.losses, R(n_samples))
             dg   == BatchGap(self_w, ws_n, l, ls_n)
         IN  /\ SmallR(dg)
             /\ ws' = ws_n
             /\ ls' = ls_n
             /\ dual_gap' = dg
             /\ gamma' = IF cfg.line_search
                         THEN BatchLineSearch(dg, self_w, ws_n)
                         ELSE BatchSchedule(k)
    /\ pc' = "batch_upd_w"
    /\ UNCHANGED <<solver, logs, locals, dual_val, primal_val,
                   outcome, interrupted, fits, passes, w_entry, w_completed>>

\* self.w = (1.0 - gamma) * self.w + gamma * ws, line 185
BatchUpdateW ==
    /\ pc = "batch_upd_w"
    /\ LET w_n == BlendV(gamma, self_w, ws)
       IN  /\ SmallV(w_n)
           /\ self_w' = w_n
    /\ pc' = "batch_upd_l"
    /\ UNCHANGED <<cfg, has_test, has_w, aliased, logs, locals, temps,
                   outcome, interrupted, fits, steps, passes, w_entry, w_completed>>

\* l = (1.0 - gamma) * l + gamma * ls, line 186
BatchUpdateL ==
    /\ pc = "batch_upd_l"
    /\ LET l_n == Blend(gamma, l, ls)
       IN  /\ SmallR(l_n)
           /\ l' = l_n
    /\ passes' = passes + 1
    /\ pc' = "batch_log"
    /\ UNCHANGED <<solver, logs, w, w_mat, l_mat, l_avg, k, p, perm, j, temps,
                   outcome, interrupted, fits, steps, w_entry, w_completed>>

\* if self.logger is not None: self.logger(self, k), lines 188-189
BatchLog ==
    /\ pc = "batch_log"
    /\ logger_calls' = IF cfg.logger THEN Append(logger_calls, PassLabel(k))
                                     ELSE logger_calls
    /\ pc' = "batch_tol"
    /\ UNCHANGED <<solver, objective_curve_, primal_objective_curve_, timestamps_,
                   train_score_, test_score_, locals, temps,
                   outcome, interrupted, fits, steps, passes, w_entry, w_completed>>

\* if dual_gap < self.tol: return, lines 191-192, else the next iteration
BatchTol ==
    /\ pc = "batch_tol"
    /\ IF RLt(dual_gap, tol)
       THEN /\ pc' = "final_ts"
            /\ ResetLocals
       ELSE /\ pc' = "batch_iter"
            /\ k' = k + 1
            /\ UNCHANGED <<aliased, w, w_mat, l_mat, l, l_avg, p, perm, j, temps>>
    /\ UNCHANGED <<cfg, has_test, has_w, self_w, logs,
                   outcome, interrupted, fits, steps, passes, w_entry, w_completed>>

(* ----------------------- exceptions inside fit ------------------------ *)
\* positions inside the try block of fit, lines 324-328
BcPcs    == {"bc_init", "bc_pass", "bc_find", "bc_sub_w", "bc_blend_w", "bc_add_w",
             "bc_sub_l", "bc_blend_l", "bc_add_l", "bc_export", "bc_log", "bc_check",
             "gap_eval", "gap_app_primal", "gap_app_dual", "gap_app_ts",
             "bc_app_primal", "bc_app_dual", "bc_app_ts", "bc_score",
             "bc_app_train", "bc_app_test", "bc_tol"}
BatchPcs == {"batch_init", "batch_iter", "batch_infer", "batch_upd_w",
             "batch_upd_l", "batch_log", "batch_tol"}
TryPcs   == BcPcs \cup BatchPcs

\* positions at which the structured model is called: find_constraint (221),
\* batch_psi and batch inference (129-133, 156, 159-162), predict and loss in
\* score (258-259), _objective (334)
OraclePcs == {"bc_find", "gap_eval", "batch_init", "batch_infer", "final_primal"}
             \cup (IF has_test THEN {"bc_score"} ELSE {})

\* except KeyboardInterrupt: pass, lines 329-330.  The interrupt is raised
\* between any two statements executed inside the try block.
KeyboardInterrupt ==
    /\ pc \in TryPcs
    /\ interrupted' = TRUE
    /\ pc' = "final_ts"
    /\ ResetLocals
    /\ UNCHANGED <<cfg, has_test, has_w, self_w, logs,
                   outcome, fits, steps, passes, w_entry, w_completed>>

\* an error of the structured model is caught nowhere and leaves fit
OracleRaise ==
    /\ pc \in OraclePcs
    /\ pc' = "idle"
    /\ outcome' = "OracleError"
    /\ ResetLocals
    /\ UNCHANGED <<cfg, has_test, has_w, self_w, logs, interrupted, fits, steps, passes, w_entry, w_completed>>

(* --------------------------- end of fit ------------------------------- *)
\* self.timestamps_.append(...), line 333
FinalTime ==
    /\ pc = "final_ts"
    /\ timestamps_' = timestamps_ + 1
    /\ pc' = "final_primal"
    /\ UNCHANGED <<solver, objective_curve_, primal_objective_curve_, train_score_,
                   test_score_, logger_calls, locals, temps,
                   outcome, interrupted, fits, steps, passes, w_entry, w_completed>>

\* self.primal_objective_curve_.append(self._objective(X, Y)), line 334
FinalPrimal ==
    /\ pc = "final_primal"
    /\ \E v \in ObjectiveValues :
         primal_objective_curve_' = Append(primal_objective_curve_, v)
    /\ pc' = "final_dual"
    /\ UNCHANGED <<solver, objective_curve_, timestamps_, train_score_, test_score_,
                   logger_calls, locals, temps,
                   outcome, interrupted, fits, steps, passes, w_entry, w_completed>>

\* self.objective_curve_.append(self.objective_curve_[-1]), line 335:
\* indexing an empty list raises IndexError
FinalDual ==
    /\ pc = "final_dual"
    /\ IF objective_curve_ = <<>>
       THEN /\ pc' = "idle"
            /\ outcome' = "IndexError"
            /\ UNCHANGED objective_curve_
       ELSE /\ objective_curve_' =
                   Append(objective_curve_, objective_curve_[Len(objective_curve_)])
            /\ pc' = "final_log"
            /\ UNCHANGED outcome
    /\ UNCHANGED <<solver, primal_objective_curve_, timestamps_, train_score_,
                   test_score_, logger_calls, locals, temps,
                   interrupted, fits, steps, passes, w_entry, w_completed>>

\* if self.logger is not None: self.logger(self, 'final'); return self,
\* lines 336-339
FinalLog ==
    /\ pc = "final_log"
    /\ logger_calls' = IF cfg.logger THEN Append(logger_calls, FinalLabel)
                                     ELSE logger_calls
    /\ pc' = "idle"
    /\ outcome' = "returned"
    /\ UNCHANGED <<solver, objective_curve_, primal_objective_curve_, timestamps_,
                   train_score_, test_score_, locals, temps,
                   interrupted, fits, steps, passes, w_entry, w_completed>>

(* --------------------------- specification ---------------------------- *)
Next ==
    \/ SetTest
    \/ FitBegin
    \/ BcInit
    \/ BcPass
    \/ BcFindConstraint
    \/ BcSubW
    \/ BcBlendW
    \/ BcAddW
    \/ BcSubL
    \/ BcBlendL
    \/ BcAddL
    \/ BcExport
    \/ BcLog
    \/ BcCheck
    \/ GapEval
    \/ GapAppendPrimal
    \/ GapAppendDual
    \/ GapAppendTime
    \/ BcAppendPrimal
    \/ BcAppendDual
    \/ BcAppendTime
    \/ BcScore
    \/ BcAppendTrain
    \/ BcAppendTest
    \/ BcTol
    \/ BatchInit
    \/ BatchIter
    \/ BatchInfer
    \/ BatchUpdateW
    \/ BatchUpdateL
    \/ BatchLog
    \/ BatchTol
    \/ KeyboardInterrupt
    \/ OracleRaise
    \/ FinalTime
    \/ FinalPrimal
    \/ FinalDual
    \/ FinalLog

Spec == Init /\ [][Next]_vars

(* ------------------------------ claims -------------------------------- *)
Ended == pc = "idle" /\ outcome \notin {"none", "running"}
Last(q) == q[Len(q)]

\* C1: with an oracle that never raises (and no interrupt), fit completes
\* without raising, for every configuration, and leaves a weight vector of
\* length model.size_psi.
C1_FitCompletes ==
    (Ended /\ outcome # "OracleError" /\ ~interrupted)
        => (outcome = "returned" /\ DOMAIN self_w = 1..size_psi)

\* C2: in the block-coordinate loop, after every inner step of every fit
\* call, w is the sum of the rows of w_mat and l is the sum of l_mat.
C2_SumInvariant ==
    (pc \in {"bc_find", "bc_log"} /\ k > 0)
        => (w = SumRows(w_mat) /\ l = SumL(l_mat))

\* the sums hold after every inner step of the first fit call on a solver
FirstFitSums ==
    (fits = 1 /\ pc \in {"bc_find", "bc_log"} /\ k > 0)
        => (w = SumRows(w_mat) /\ l = SumL(l_mat))

\* C3: a KeyboardInterrupt delivered while the batch or block-coordinate loop
\* runs makes fit return normally with non-empty history logs.
C3_CancelReturns ==
    (Ended /\ interrupted /\ outcome # "OracleError")
        => (outcome = "returned" /\ objective_curve_ # <<>>
                                 /\ primal_objective_curve_ # <<>>)

\* C4: when the oracle raises during fit (no interrupt having been delivered),
\* the error leaves fit and self.w equals its value at entry to that fit call.
C4_OracleErrorKeepsW ==
    (Ended /\ outcome = "OracleError" /\ ~interrupted) => self_w = w_entry

\* C5: with max_iter = 0 on a freshly constructed solver, fit returns without
\* raising and the weight vector is all zeros.
C5_ZeroIterations ==
    (Ended /\ fits = 1 /\ cfg.max_iter = 0 /\ outcome # "OracleError" /\ ~interrupted)
        => (outcome = "returned" /\ self_w = ZeroVec)

\* C6 as stated: there being no warm-start request in fit's signature, every
\* fit call starts from the zero weight vector.
C6_ColdStart ==
    (pc \in {"bc_init", "batch_init"}) => self_w = ZeroVec

\* C6 as amended: a fit call always starts from the weight vector the solver
\* object already holds (zeros only when it holds none); the history logs are
\* emptied by every fit call, and w_mat, l_mat, l and k start from zero in
\* every run of the block-coordinate loop, whose iterate w starts as self.w.
C6_WarmStartAlways ==
    [][ /\ (pc = "idle" /\ pc' # "idle") =>
              /\ has_w => self_w' = self_w
              /\ ~has_w => self_w' = ZeroVec
              /\ objective_curve_' = <<>> /\ primal_objective_curve_' = <<>>
              /\ train_score_' = 0 /\ test_score_' = 0 /\ timestamps_' = 1
        /\ (pc = "bc_init" /\ pc' = "bc_pass") =>
              /\ w_mat' = ZeroMat /\ l_mat' = ZeroLMat
              /\ l' = Zero /\ k' = 0
              /\ w' = self_w
      ]_vars

\* C6 witness: a second fit call has entered the block-coordinate loop with
\* the non-zero weight vector the first call left.
C6_SecondFitWarm ==
    /\ fits = 2 /\ pc = "bc_pass" /\ p = 0
    /\ self_w # ZeroVec /\ w = self_w /\ w_mat = ZeroMat

\* C7: with a logger, every fit call that ends has called it once per
\* completed pass with the indices 0, 1, 2, ... in order and then once, last,
\* with 'final'.
C7_LoggerSequence ==
    (Ended /\ cfg.logger /\ outcome # "OracleError")
        => logger_calls = [n \in 1..passes |-> PassLabel(n - 1)] \o <<FinalLabel>>

\* positions at which gamma has been computed for the current step
GammaPcs == {"bc_sub_w", "bc_blend_w", "bc_add_w", "bc_sub_l", "bc_blend_l",
             "bc_add_l", "bc_export", "batch_upd_w", "batch_upd_l"}

\* C8: with line search on, the step size gamma used in an update lies in
\* [0, 1], in the block-coordinate step and in the batch step.
C8_GammaInUnit ==
    (cfg.line_search /\ pc \in GammaPcs) => (RLeq(Zero, gamma) /\ RLeq(gamma, One))

\* C8 witness: a block-coordinate step whose direction ws equals w_mat[i], so
\* that the sum of squares is zero before the floor, with a positive numerator.
C8_ZeroDenominator ==
    /\ cfg.line_search /\ pc = "bc_blend_w"
    /\ ws = w_mat[perm[j]]
    /\ RLt(l_mat[perm[j]], ls)
    /\ gamma = One

\* C9: when a KeyboardInterrupt ends the block-coordinate loop, the exported
\* self.w is the value exported by the last completed inner step, never a
\* half-updated iterate.
C9_CancelBetweenSteps ==
    (pc = "final_ts" /\ interrupted /\ ~cfg.batch_mode) => self_w = w_completed

\* the second half of C9: at the moment the interrupt unwinds the loop, w and l
\* are the sums of w_mat and l_mat
SumsAtExit ==
    [][ (pc \in BcPcs \ {"bc_init"} /\ interrupted') =>
            (w = SumRows(w_mat) /\ l = SumL(l_mat)) ]_vars

\* within a fit call the dual and primal logs change only by appending
AppendOnly ==
    [][ (pc # "idle") =>
           /\ Len(objective_curve_') >= Len(objective_curve_)
           /\ SubSeq(objective_curve_', 1, Len(objective_curve_)) = objective_curve_
           /\ Len(primal_objective_curve_') >= Len(primal_objective_curve_)
           /\ SubSeq(primal_objective_curve_', 1, Len(primal_objective_curve_))
                  = primal_objective_curve_
      ]_vars

\* C10: whenever fit returns, the dual and primal logs have the same length
\* and the last entry of the dual log equals the entry before it.
C10_CurvesAligned ==
    (Ended /\ outcome = "returned")
        => /\ Len(objective_curve_) = Len(primal_objective_curve_)
           /\ Len(objective_curve_) >= 2
           /\ Last(objective_curve_) = objective_curve_[Len(objective_curve_) - 1]

\* a fit call that returns without having been interrupted has aligned logs
AlignedWithoutInterrupt ==
    (Ended /\ outcome = "returned" /\ ~interrupted)
        => /\ Len(objective_curve_) = Len(primal_objective_curve_)
           /\ Last(objective_curve_) = objective_curve_[Len(objective_curve_) - 1]

====
